---- MODULE Spec2Model ----
(***************************************************************************)
(* The F1 telemetry replay backend: F1DataProcessor (f1_data_processor.py) *)
(* behind the Flask handlers of app.py.                                    *)
(*                                                                         *)
(* Time is counted in ticks of 0.1 ms, so that rounding a frame time to    *)
(* 1 ms (round(x, 3) on seconds) is a real operation on the model's        *)
(* numbers.  Arithmetic on times is exact.                                 *)
(***************************************************************************)
EXTENDS Integers, Sequences, FiniteSets, TLC

VARIABLES
    session,        \* self.session: the handle held by the processor
    frames,         \* self.frames
    driver_colors,  \* self.driver_colors
    track_coords,   \* self.track_coords
    response,       \* the last HTTP response produced by a handler of app.py
    loading,        \* the load request being served (or waiting to be served)
    pc,             \* position of the thread serving /api/load
    prev,           \* history: the processor's fields when the load in progress began
    succeeded       \* history: some load has succeeded

vars == <<session, frames, driver_colors, track_coords, response, loading, pc, prev, succeeded>>

held == <<session, frames, driver_colors, track_coords>>

-----------------------------------------------------------------------------
(* Bounds of the model and constants of the program *)

MaxLaps == 2        \* laps per driver in the telemetry sessions
MaxSamples == 2     \* telemetry samples per lap in the telemetry sessions
MaxLapNo == 3       \* largest lap number in the tyre sessions
MaxIndex == 2       \* frame indices queried range over -MaxIndex .. MaxIndex

FPS == 25

TicksPerSecond == 10 * 1000

\* dt = 1 / fps
DT == TicksPerSecond \div FPS

Drivers == {"VER", "HAM"}

Compounds == {"SOFT", "MEDIUM"}

-----------------------------------------------------------------------------
(* Small helpers *)

Min(S) == CHOOSE x \in S : \A y \in S : x <= y

Max(S) == CHOOSE x \in S : \A y \in S : x >= y

Range(s) == {s[i] : i \in 1..Len(s)}

RECURSIVE Flatten(_)
Flatten(ss) == IF ss = <<>> THEN <<>> ELSE Head(ss) \o Flatten(Tail(ss))

\* The ascending sequence of the elements of a finite set of integers.
RECURSIVE Ascending(_)
Ascending(S) == IF S = {} THEN <<>> ELSE <<Min(S)>> \o Ascending(S \ {Min(S)})

\* Python's round(x, 3) on a time in seconds: to the nearest millisecond
\* (10 ticks), a tie going to the even millisecond.
Round3(x) ==
    LET q == x \div 10
        r == x % 10
    IN  IF r < 5 THEN q * 10
        ELSE IF r > 5 THEN (q + 1) * 10
        ELSE IF q % 2 = 0 THEN q * 10 ELSE (q + 1) * 10

-----------------------------------------------------------------------------
(* What the telemetry provider (fastf1) returns for a session.              *)
(*                                                                         *)
(* A lap is a row of session.laps with the result of its get_telemetry():  *)
(* tel is the sample table (SessionTime, Distance), fails says that        *)
(* get_telemetry() raises.  A session's data is what get_session/load give *)
(* for it: source tells whether get_session or session.load raises.        *)

Sample(t, d) == [SessionTime |-> t, Distance |-> d]

Lap(n, c, tel, fails) == [LapNumber |-> n, Compound |-> c, tel |-> tel, fails |-> fails]

NoLaps == [d \in Drivers |-> <<>>]

NoData == [source |-> "none", laps |-> NoLaps, colors |-> FALSE, track |-> <<>>, weather |-> <<>>]

SessionData(src, laps, colors, track, weather) ==
    [source |-> src, laps |-> laps, colors |-> colors, track |-> track, weather |-> weather]

\* The two ways the provider fails for the whole session.
Unavailable == SessionData("unavailable", NoLaps, FALSE, <<>>, <<>>)

LoadError == SessionData("load_error", NoLaps, FALSE, <<>>, <<>>)

\* A weather table (Time, TrackTemp), and a fastest-lap X trace.
WeatherTable == <<[Time |-> 0, TrackTemp |-> 30], [Time |-> 1000, TrackTemp |-> 31]>>

TrackTrace == <<200, 1000, 600>>

\* Lap n runs from LapStart(n); its samples lie at offsets of the lap start.
LapStart(n) == (n - 1) * 800

\* The sample tables a lap can have: at most maxSamples samples at the given
\* offsets of the lap start, in time order (the empty table included).
LapTables(n, offsets, maxSamples) ==
    {[i \in 1..Len(Ascending(S)) |-> Sample(LapStart(n) + Ascending(S)[i], Ascending(S)[i] + 1)] :
        S \in {T \in SUBSET offsets : Cardinality(T) <= maxSamples}}

PlannedCompound(n) == IF n = 1 THEN "SOFT" ELSE "MEDIUM"

\* The lap records lap number n can have.
LapChoices(n, offsets, maxSamples, mayFail) ==
    {Lap(n, PlannedCompound(n), tel, FALSE) : tel \in LapTables(n, offsets, maxSamples)}
    \cup (IF mayFail THEN {Lap(n, PlannedCompound(n), <<>>, TRUE)} ELSE {})

\* The lap tables of one driver: laps 1..n for some n <= maxLaps, in lap order.
RECURSIVE LapSeqs(_, _, _, _)
LapSeqs(n, offsets, maxSamples, mayFail) ==
    IF n = 0 THEN {<<>>}
    ELSE LapSeqs(n - 1, offsets, maxSamples, mayFail)
         \cup {Append(ls, l) : ls \in {x \in LapSeqs(n - 1, offsets, maxSamples, mayFail) : Len(x) = n - 1},
                               l \in LapChoices(n, offsets, maxSamples, mayFail)}

\* Sessions that differ in their telemetry.
TelemetrySessions ==
    {SessionData("ok", [d \in Drivers |-> IF d = "VER" THEN v ELSE h], TRUE, TrackTrace, w) :
        v \in LapSeqs(MaxLaps, {0, 150, 800}, MaxSamples, FALSE),
        h \in LapSeqs(MaxLaps, {800}, MaxSamples, FALSE),
        w \in {<<>>, WeatherTable}}

\* Sessions for the request sequences: few, with every kind of failure.
SmallSessions ==
    {SessionData("ok", laps, TRUE, TrackTrace, WeatherTable) :
        laps \in [Drivers -> LapSeqs(1, {0, 800}, 2, TRUE)]}
    \cup {SessionData("ok", laps, FALSE, TrackTrace, WeatherTable) :
        laps \in [Drivers -> LapSeqs(1, {0, 800}, 2, FALSE) \ LapSeqs(1, {0, 800}, 1, FALSE)]}
    \cup {Unavailable, LoadError}

\* Sessions that differ in the lap numbers and compounds of their laps: each
\* driver has recorded laps at some lap numbers of 1..MaxLapNo, each with one sample.
TyreLaps ==
    UNION {{[i \in 1..Len(Ascending(S)) |->
                Lap(Ascending(S)[i], c[Ascending(S)[i]],
                    <<Sample(LapStart(Ascending(S)[i]), 1)>>, FALSE)] :
            c \in [S -> Compounds]} : S \in SUBSET (1..MaxLapNo)}

TyreSessions ==
    {SessionData("ok", laps, TRUE, TrackTrace, <<>>) : laps \in [Drivers -> TyreLaps]}

\* Sessions for the interleavings of a load with queries: each driver has no
\* laps or one lap of two samples.
ConcSessions ==
    {SessionData("ok", laps, TRUE, tr, w) :
        laps \in [Drivers -> {<<>>} \cup (LapSeqs(1, {0, 800}, 2, FALSE) \ LapSeqs(1, {0, 800}, 1, FALSE))],
        tr \in {<<>>, TrackTrace}, w \in {<<>>, WeatherTable}}
    \cup {Unavailable, LoadError}

-----------------------------------------------------------------------------
(* F1DataProcessor: the stages of load_and_process as functions of the      *)
(* session data                                                            *)

NoColors == [d \in {} |-> ""]

TeamColor(d) == IF d = "VER" THEN "#3671C6" ELSE "#27F4D2"

\* _extract_driver_colors: the provider's colour mapping covers the drivers of
\* the session; any exception leaves an empty table.
ExtractDriverColors(data) ==
    IF data.colors THEN [d \in Drivers |-> [hex |-> TeamColor(d)]] ELSE NoColors

\* _extract_track_coords: the fastest lap's X trace scaled into the canvas;
\* any exception leaves empty coordinates (and no scale or offset).
ExtractTrackCoords(data) ==
    IF data.track = <<>>
    THEN [x |-> <<>>, scale |-> 1, offset_x |-> 0, derived |-> FALSE]
    ELSE LET x_min == Min(Range(data.track))
             x_max == Max(Range(data.track))
             scale == 800 \div (x_max - x_min)
         IN  [x |-> [i \in 1..Len(data.track) |-> (data.track[i] - x_min) * scale + 100],
              scale |-> scale, offset_x |-> x_min, derived |-> TRUE]

\* The arrays _process_frames collects for one driver: the samples of the laps
\* with telemetry, concatenated in lap order, with the lap's number and compound.
Arrays(laps) ==
    LET rows == Flatten([i \in 1..Len(laps) |->
                    [j \in 1..Len(laps[i].tel) |->
                        [t |-> laps[i].tel[j].SessionTime,
                         dist |-> laps[i].tel[j].Distance,
                         lap |-> laps[i].LapNumber,
                         tyre |-> laps[i].Compound]]])
    IN  [t |-> [i \in 1..Len(rows) |-> rows[i].t],
         dist |-> [i \in 1..Len(rows) |-> rows[i].dist],
         lap |-> [i \in 1..Len(rows) |-> rows[i].lap],
         tyre |-> [i \in 1..Len(rows) |-> rows[i].tyre]]

\* lap.get_telemetry() raises for some lap of some driver: nothing catches it.
ExtractionRaises(data) ==
    \E d \in Drivers : \E i \in 1..Len(data.laps[d]) : data.laps[d][i].fails

\* all_data: the drivers that have laps and at least one sample.
AllData(data) ==
    [d \in {c \in Drivers : data.laps[c] # <<>> /\ Arrays(data.laps[c]).t # <<>>} |->
        Arrays(data.laps[d])]

GlobalTMin(all) == Min({Min(Range(all[c].t)) : c \in DOMAIN all})

GlobalTMax(all) == Max({Max(Range(all[c].t)) : c \in DOMAIN all})

\* _process_frames raises before it touches self.frames: on a failing
\* get_telemetry(), or in np.arange(None, None, dt) when no driver has a sample.
ProcessRaises(data) == ExtractionRaises(data) \/ DOMAIN AllData(data) = {}

\* np.arange(start, stop, step): start + k*step for the k with start + k*step < stop.
ArangeStopIncluded(start, stop, step) ==
    [k \in 1..((stop - start) \div step + 1) |-> start + (k - 1) * step]

Arange(start, stop, step) ==
    [k \in 1..((stop - start + step - 1) \div step) |-> start + (k - 1) * step]

Timeline(data) == Arange(GlobalTMin(AllData(data)), GlobalTMax(AllData(data)), DT)

\* np.searchsorted(a, v) on an ascending array (side='left'): the 0-based
\* index of the first element that is >= v, len(a) when there is none.
SearchSorted(a, v) == Cardinality({i \in 1..Len(a) : a[i] < v})

\* The index taken one past the insertion point (still clamped to the last index).
SampleIndexOnePast(a, v) == Min({SearchSorted(a, v) + 1, Len(a) - 1})

\* idx = min(np.searchsorted(a, v), len(a) - 1), 0-based
SampleIndex(a, v) == Min({SearchSorted(a, v), Len(a) - 1})

\* The driver entry of a frame, from the sample at 0-based index idx.
Snapshot(arr, idx) ==
    [dist |-> arr.dist[idx + 1],
     lap |-> arr.lap[idx + 1],
     tyre |-> IF idx < Len(arr.tyre) THEN arr.tyre[idx + 1] ELSE "UNKNOWN"]

\* The frame built for timeline position k (1-based), before weather is added.
BuildFrame(data, k) ==
    LET all == AllData(data)
        t == Timeline(data)[k]
    IN  [t |-> Round3(t - GlobalTMin(all)),
         drivers |-> [c \in DOMAIN all |-> Snapshot(all[c], SampleIndex(all[c].t, t))],
         weather |-> <<>>]

\* The weather entry _add_weather_to_frames gives the frame at time t.
WeatherAt(data, t) ==
    LET times == [i \in 1..Len(data.weather) |-> data.weather[i].Time]
    IN  <<[track_temp |-> data.weather[SampleIndex(times, t) + 1].TrackTemp]>>

\* One step of the loop of _add_weather_to_frames.
AddWeather(data, fs, i) ==
    [fs EXCEPT ![i].weather = WeatherAt(data, Timeline(data)[i])]

\* self.frames when _process_frames returns.
ProcessFrames(data) ==
    [k \in 1..Len(Timeline(data)) |->
        IF data.weather = <<>> THEN BuildFrame(data, k)
        ELSE [BuildFrame(data, k) EXCEPT !.weather = WeatherAt(data, Timeline(data)[k])]]

\* int(self.session.laps['LapNumber'].max())
TotalLaps(data) ==
    Max(UNION {{data.laps[d][i].LapNumber : i \in 1..Len(data.laps[d])} : d \in Drivers})

-----------------------------------------------------------------------------
(* F1DataProcessor: the queries, as functions of the processor's fields     *)

\* Python's seq[start:end]: a negative bound counts from the end, and both
\* bounds are then clamped to 0..len.
SliceBound(n, len) == IF n < 0 THEN Max({n + len, 0}) ELSE Min({n, len})

\* get_frames(start, end)
GetFrames(fs, start, end) ==
    SubSeq(fs, SliceBound(start, Len(fs)) + 1, SliceBound(end, Len(fs)))

\* get_frame(index): the frame, or the empty dict
GetFrame(fs, index) ==
    IF 0 <= index /\ index < Len(fs) THEN <<fs[index + 1]>> ELSE <<>>

\* laps.sort_values('LapNumber')
SortByLapNumber(laps) ==
    LET nums == Ascending({laps[i].LapNumber : i \in 1..Len(laps)})
    IN  [i \in 1..Len(nums) |-> CHOOSE l \in Range(laps) : l.LapNumber = nums[i]]

Stint(c, from, to) == [compound |-> c, start_lap |-> from, end_lap |-> to]

\* The loop of get_tyre_strategy over the laps from position i on: cur is
\* current_compound (cur.set is false while it is None), start is stint_start.
RECURSIVE StintLoop(_, _, _, _, _)
StintLoop(laps, i, stints, cur, start) ==
    IF i > Len(laps)
    THEN IF cur.set /\ cur.c # ""
         THEN Append(stints, Stint(cur.c, start, Max({laps[j].LapNumber : j \in 1..Len(laps)})))
         ELSE stints
    ELSE IF ~cur.set \/ laps[i].Compound # cur.c
         THEN StintLoop(laps, i + 1,
                        IF cur.set /\ cur.c # ""
                        THEN Append(stints, Stint(cur.c, start, laps[i].LapNumber - 1))
                        ELSE stints,
                        [set |-> TRUE, c |-> laps[i].Compound], laps[i].LapNumber)
         ELSE StintLoop(laps, i + 1, stints, cur, start)

\* The stints get_tyre_strategy reports for the laps of one driver.
Stints(laps) == StintLoop(SortByLapNumber(laps), 1, <<>>, [set |-> FALSE, c |-> ""], 1)

\* get_tyre_strategy: one entry for each driver that has laps.
GetTyreStrategy(data, colors) ==
    [d \in {c \in Drivers : data.laps[c] # <<>>} |->
        [color |-> IF d \in DOMAIN colors THEN colors[d].hex ELSE "#ffffff",
         stints |-> Stints(data.laps[d])]]

\* get_lap_time_analysis: the lap numbers of each driver that has laps.
GetLapTimeAnalysis(data) ==
    [d \in {c \in Drivers : data.laps[c] # <<>>} |->
        [lap_numbers |-> [i \in 1..Len(data.laps[d]) |-> data.laps[d][i].LapNumber]]]

\* get_weather_data
GetWeatherData(data) ==
    IF data.weather = <<>> THEN [available |-> FALSE, track_temp |-> <<>>]
    ELSE [available |-> TRUE,
          track_temp |-> [i \in 1..Len(data.weather) |-> data.weather[i].TrackTemp]]

\* get_driver_telemetry(driver_code, lap) raises when the driver has no such
\* lap (iloc[0] of an empty selection) or the lap's get_telemetry() raises.
TelemetryRaises(data, d, lap) ==
    \/ \A i \in 1..Len(data.laps[d]) : data.laps[d][i].LapNumber # lap
    \/ \E i \in 1..Len(data.laps[d]) : data.laps[d][i].LapNumber = lap /\ data.laps[d][i].fails

GetDriverTelemetry(data, d, lap) ==
    LET l == CHOOSE x \in Range(data.laps[d]) : x.LapNumber = lap
    IN  [distance |-> [j \in 1..Len(l.tel) |-> l.tel[j].Distance], compound |-> l.Compound]

-----------------------------------------------------------------------------
(* The state machine: the processor created by app.py and its handlers      *)

NoSession == [state |-> "None", data |-> NoData]

NoResponse == [op |-> "none", status |-> 0, args |-> <<>>, body |-> <<>>]

Response(op, status, args, body) == [op |-> op, status |-> status, args |-> args, body |-> body]

\* F1DataProcessor.__init__
Constructed ==
    /\ session = NoSession
    /\ frames = <<>>
    /\ driver_colors = NoColors
    /\ track_coords = [x |-> <<>>, scale |-> 1, offset_x |-> 0, derived |-> FALSE]
    /\ response = NoResponse
    /\ pc = "idle"
    /\ prev = <<NoSession, <<>>, NoColors, [x |-> <<>>, scale |-> 1, offset_x |-> 0, derived |-> FALSE]>>
    /\ succeeded = FALSE

Init == Constructed /\ loading = NoData

\* The summary load_and_process returns.
Summary(data, fs, colors) ==
    [total_frames |-> Len(fs), drivers |-> DOMAIN colors, total_laps |-> TotalLaps(data)]

\* POST /api/load served in one piece: load_and_process under the handler's
\* try/except, which turns any exception into a 500 response.
Load(data) ==
    /\ pc = "idle"
    /\ CASE data.source = "unavailable" ->
                /\ response' = Response("load", 500, <<>>, <<>>)
                /\ UNCHANGED <<session, frames, driver_colors, track_coords>>
         [] data.source = "load_error" ->
                /\ session' = [state |-> "created", data |-> data]
                /\ response' = Response("load", 500, <<>>, <<>>)
                /\ UNCHANGED <<frames, driver_colors, track_coords>>
         [] OTHER ->
                /\ session' = [state |-> "loaded", data |-> data]
                /\ driver_colors' = ExtractDriverColors(data)
                /\ track_coords' = ExtractTrackCoords(data)
                /\ IF ProcessRaises(data)
                   THEN /\ frames' = frames
                        /\ response' = Response("load", 500, <<>>, <<>>)
                   ELSE /\ frames' = ProcessFrames(data)
                        /\ response' = Response("load", 200, <<>>,
                                                Summary(data, ProcessFrames(data), ExtractDriverColors(data)))
    /\ succeeded' = (succeeded \/ response'.status = 200)
    /\ UNCHANGED <<pc, prev>>

LoadSession == \E data \in SmallSessions : Load(data) /\ UNCHANGED loading

\* The load request that was waiting at the start is served.
LoadPending == response = NoResponse /\ Load(loading) /\ UNCHANGED loading

\* GET /api/frames?start=&end=
FramesQuery ==
    \E start \in -MaxIndex..MaxIndex, end \in -MaxIndex..MaxIndex :
        /\ response' = Response("frames", 200, <<start, end>>, GetFrames(frames, start, end))
        /\ UNCHANGED <<session, frames, driver_colors, track_coords, loading, pc, prev, succeeded>>

\* GET /api/frame/<int:index>: the route accepts no negative index
FrameQuery ==
    \E index \in 0..MaxIndex :
        /\ response' = Response("frame", 200, <<index>>, GetFrame(frames, index))
        /\ UNCHANGED <<session, frames, driver_colors, track_coords, loading, pc, prev, succeeded>>

\* GET /api/telemetry/<driver_code>?lap=
TelemetryQuery ==
    \E d \in Drivers, lap \in 1..2 :
        /\ response' =
             IF session.state # "loaded" \/ TelemetryRaises(session.data, d, lap)
             THEN Response("telemetry", 500, <<d, lap>>, <<>>)
             ELSE Response("telemetry", 200, <<d, lap>>, GetDriverTelemetry(session.data, d, lap))
        /\ UNCHANGED <<session, frames, driver_colors, track_coords, loading, pc, prev, succeeded>>

\* GET /api/analysis/lap-times
LapTimesQuery ==
    /\ response' =
         IF session.state # "loaded" THEN Response("lap-times", 500, <<>>, <<>>)
         ELSE Response("lap-times", 200, <<>>, GetLapTimeAnalysis(session.data))
    /\ UNCHANGED <<session, frames, driver_colors, track_coords, loading, pc, prev, succeeded>>

\* GET /api/analysis/tyre-strategy
TyreStrategyQuery ==
    /\ response' =
         IF session.state # "loaded" THEN Response("tyre-strategy", 500, <<>>, <<>>)
         ELSE Response("tyre-strategy", 200, <<>>, GetTyreStrategy(session.data, driver_colors))
    /\ UNCHANGED <<session, frames, driver_colors, track_coords, loading, pc, prev, succeeded>>

\* GET /api/weather: getattr(None, 'weather_data', None) is None, so without a
\* session the answer is "not available"; a session that is not loaded raises.
WeatherQuery ==
    /\ response' =
         IF session.state = "None" THEN Response("weather", 200, <<>>, GetWeatherData(NoData))
         ELSE IF session.state # "loaded" THEN Response("weather", 500, <<>>, <<>>)
         ELSE Response("weather", 200, <<>>, GetWeatherData(session.data))
    /\ UNCHANGED <<session, frames, driver_colors, track_coords, loading, pc, prev, succeeded>>

Query ==
    \/ FramesQuery
    \/ FrameQuery
    \/ TelemetryQuery
    \/ LapTimesQuery
    \/ TyreStrategyQuery
    \/ WeatherQuery

\* The server with one request served at a time.
Next == LoadSession \/ Query

Spec == Init /\ [][Next]_vars

-----------------------------------------------------------------------------
(* One load of a session drawn from the telemetry sessions, or from the     *)
(* tyre sessions followed by tyre-strategy queries                         *)

InitFrames == Constructed /\ loading \in TelemetrySessions

NextFrames == LoadPending

SpecFrames == InitFrames /\ [][NextFrames]_vars

InitTyre == Constructed /\ loading \in TyreSessions

\* A tyre-strategy query after the load has been answered.
TyreStrategyAfterLoad == response.op = "load" /\ TyreStrategyQuery

NextTyre == LoadPending \/ TyreStrategyAfterLoad

SpecTyre == InitTyre /\ [][NextTyre]_vars

-----------------------------------------------------------------------------
(* POST /api/load statement by statement, on the threaded server app.run    *)
(* starts: the other handlers run between any two of its statements.       *)

\* self.session = fastf1.get_session(...)
GetSession ==
    \E data \in ConcSessions :
        /\ pc = "idle"
        /\ prev' = held
        /\ loading' = data
        /\ IF data.source = "unavailable"
           THEN /\ response' = Response("load", 500, <<>>, <<>>)
                /\ UNCHANGED <<session, pc>>
           ELSE /\ session' = [state |-> "created", data |-> data]
                /\ pc' = "load"
                /\ UNCHANGED response
        /\ UNCHANGED <<frames, driver_colors, track_coords, succeeded>>

\* self.session.load(telemetry=True, weather=True)
SessionLoad ==
    /\ pc = "load"
    /\ IF loading.source = "load_error"
       THEN /\ response' = Response("load", 500, <<>>, <<>>)
            /\ pc' = "idle"
            /\ UNCHANGED session
       ELSE /\ session' = [state |-> "loaded", data |-> loading]
            /\ pc' = "colors"
            /\ UNCHANGED response
    /\ UNCHANGED <<frames, driver_colors, track_coords, loading, prev, succeeded>>

\* self._extract_driver_colors()
DriverColorsStep ==
    /\ pc = "colors"
    /\ driver_colors' = ExtractDriverColors(loading)
    /\ pc' = "track"
    /\ UNCHANGED <<session, frames, track_coords, response, loading, prev, succeeded>>

\* self._extract_track_coords()
TrackCoordsStep ==
    /\ pc = "track"
    /\ track_coords' = ExtractTrackCoords(loading)
    /\ pc' = "collect"
    /\ UNCHANGED <<session, frames, driver_colors, response, loading, prev, succeeded>>

\* _process_frames up to self.frames = []
CollectStep ==
    /\ pc = "collect"
    /\ IF ProcessRaises(loading)
       THEN /\ response' = Response("load", 500, <<>>, <<>>)
            /\ pc' = "idle"
            /\ UNCHANGED frames
       ELSE /\ frames' = <<>>
            /\ pc' = "build"
            /\ UNCHANGED response
    /\ UNCHANGED <<session, driver_colors, track_coords, loading, prev, succeeded>>

\* One turn of the loop that builds the frames: self.frames.append(frame)
BuildStep ==
    /\ pc = "build"
    /\ IF Len(frames) < Len(Timeline(loading))
       THEN frames' = Append(frames, BuildFrame(loading, Len(frames) + 1)) /\ UNCHANGED pc
       ELSE pc' = "weather" /\ UNCHANGED frames
    /\ UNCHANGED <<session, driver_colors, track_coords, response, loading, prev, succeeded>>

\* One turn of the loop of _add_weather_to_frames, which gives the frames
\* their weather from the first on.
WeatherStep ==
    LET i == Cardinality({j \in 1..Len(frames) : frames[j].weather # <<>>}) + 1 IN
    /\ pc = "weather"
    /\ IF loading.weather # <<>> /\ i <= Len(frames)
       THEN frames' = AddWeather(loading, frames, i) /\ UNCHANGED pc
       ELSE pc' = "summary" /\ UNCHANGED frames
    /\ UNCHANGED <<session, driver_colors, track_coords, response, loading, prev, succeeded>>

\* total_laps, the returned summary and the handler's response
SummaryStep ==
    /\ pc = "summary"
    /\ response' = Response("load", 200, <<>>, Summary(loading, frames, driver_colors))
    /\ pc' = "idle"
    /\ succeeded' = TRUE
    /\ UNCHANGED <<session, frames, driver_colors, track_coords, loading, prev>>

LoadStep ==
    \/ GetSession
    \/ SessionLoad
    \/ DriverColorsStep
    \/ TrackCoordsStep
    \/ CollectStep
    \/ BuildStep
    \/ WeatherStep
    \/ SummaryStep

NextConc == LoadStep \/ FramesQuery \/ FrameQuery

SpecConc == Init /\ [][NextConc]_vars

-----------------------------------------------------------------------------
(* The claims *)

\* The last response reports a successful load (of the session now held).
LoadSucceeded == response.op = "load" /\ response.status = 200

\* The sample times of all drivers of a session.
SampleTimes(data) ==
    UNION {UNION {{data.laps[d][i].tel[j].SessionTime : j \in 1..Len(data.laps[d][i].tel)} :
                  i \in 1..Len(data.laps[d])} : d \in Drivers}

\* The 0-based index i with a[i] <= v < a[i+1], the last index when v >= a[last].
NearestPast(a, v) == Max({i \in 1..Len(a) : a[i] <= v}) - 1

\* C1: after a load, for every timeline step t_k and every driver whose first
\* timestamp is <= t_k, the driver's entry in frame k is the sample at the
\* index i with t[i] <= t_k < t[i+1] (the last index when t_k >= t[last]):
\* never a sample later than t_k.
C1_NearestPastSample ==
    LoadSucceeded =>
        \A k \in 1..Len(frames) : \A c \in DOMAIN AllData(session.data) :
            LET arr == AllData(session.data)[c]
                t_k == Min(SampleTimes(session.data)) + (k - 1) * DT
            IN  arr.t[1] <= t_k =>
                    frames[k].drivers[c] = Snapshot(arr, NearestPast(arr.t, t_k))

C3_NoTelemetryDriverExcluded ==
    LoadSucceeded =>
        \A d \in Drivers :
            IF Arrays(session.data.laps[d]).t = <<>>
            THEN /\ d \notin response.body.drivers
                 /\ \A k \in 1..Len(frames) : d \notin DOMAIN frames[k].drivers
            ELSE \A k \in 1..Len(frames) : d \in DOMAIN frames[k].drivers

\* C4: get_frames(start, end) returns, in index order, exactly the frames
\* whose index i satisfies start <= i < end and 0 <= i < length, for every
\* pair of integers start and end.
C4_FramesClamped ==
    response.op = "frames" =>
        /\ response.status = 200
        /\ response.body = SubSeq(frames, Max({response.args[1], 0}) + 1,
                                          Min({response.args[2], Len(frames)}))

\* C5: a load that fails leaves session, frames, driver_colors and
\* track_coords exactly as they were before the call.
C5_FailedLoadKeepsState ==
    [][(response'.op = "load" /\ response'.status = 500) => held' = held]_vars

\* The derived state a complete load of a session leaves.
CompleteState(data) ==
    <<ProcessFrames(data), ExtractDriverColors(data), ExtractTrackCoords(data)>>

\* C6: the derived state (frames, driver colours, track) a query reads while
\* a load is in progress is the complete derived state of the previous session
\* or the complete derived state of the new one, never a mixture of the two
\* or a partly built frame sequence.
C6_NoPartialState ==
    pc # "idle" =>
        \/ <<frames, driver_colors, track_coords>> = <<prev[2], prev[3], prev[4]>>
        \/ /\ loading.source = "ok"
           /\ ~ProcessRaises(loading)
           /\ <<frames, driver_colors, track_coords>> = CompleteState(loading)

\* C7: a query made before any load has succeeded is answered with an error,
\* never with a normal result.
C7_NoActiveSessionError ==
    (~succeeded /\ response.op \in {"frames", "frame", "telemetry", "lap-times", "tyre-strategy", "weather"})
        => response.status # 200

\* The session without the laps of the drivers whose telemetry cannot be extracted.
WithoutFailing(data) ==
    [data EXCEPT !.laps = [d \in Drivers |->
        IF \E i \in 1..Len(data.laps[d]) : data.laps[d][i].fails THEN <<>> ELSE data.laps[d]]]

\* C8: when extracting one driver's telemetry raises (and another driver has
\* telemetry), the load succeeds and the frames are those of the session
\* without the failing driver.
C8_ExtractionFailureIsolated ==
    (/\ response.op = "load"
     /\ session.state = "loaded"
     /\ ExtractionRaises(session.data)
     /\ DOMAIN AllData(WithoutFailing(session.data)) # {})
        => /\ response.status = 200
           /\ frames = ProcessFrames(WithoutFailing(session.data))

\* C9: the stints of every driver are ordered, contiguous and cover every lap
\* number from 1 to the driver's largest lap number.
C9_StintsCoverAllLaps ==
    (response.op = "tyre-strategy" /\ response.status = 200) =>
        \A d \in DOMAIN response.body :
            LET st == response.body[d].stints IN
            /\ st # <<>>
            /\ st[1].start_lap = 1
            /\ \A i \in 1..Len(st) : st[i].start_lap <= st[i].end_lap
            /\ \A i \in 1..(Len(st) - 1) : st[i + 1].start_lap = st[i].end_lap + 1
            /\ st[Len(st)].end_lap = Max({session.data.laps[d][i].LapNumber : i \in 1..Len(session.data.laps[d])})

\* C10: when the loaded session has no driver with a telemetry sample, the
\* load completes with an empty frame sequence and total_frames = 0.
C10_NoTelemetryEmptyTimeline ==
    (/\ response.op = "load"
     /\ session.state = "loaded"
     /\ ~ExtractionRaises(session.data)
     /\ SampleTimes(session.data) = {})
        => /\ response.status = 200
           /\ frames = <<>>
           /\ response.body.total_frames = 0

\* C11: for every timeline step t_k and every driver stream, the resolved
\* sample index lies in 0 .. len(t) - 1, so the frame entry is one of the
\* stream's samples (never the UNKNOWN tyre of an index past the arrays); it
\* is the first sample when t_k is earlier than the driver's first timestamp
\* and the last sample when t_k is later than the driver's last timestamp.
C11_IndexInBounds ==
    LoadSucceeded =>
        \A k \in 1..Len(frames) : \A c \in DOMAIN AllData(session.data) :
            LET arr == AllData(session.data)[c]
                n == Len(arr.t)
                t_k == Min(SampleTimes(session.data)) + (k - 1) * DT
            IN  /\ SampleIndex(arr.t, t_k) \in 0..(n - 1)
                /\ frames[k].drivers[c] \in {Snapshot(arr, i) : i \in 0..(n - 1)}
                /\ frames[k].drivers[c].tyre # "UNKNOWN"
                /\ t_k < arr.t[1] => frames[k].drivers[c] = Snapshot(arr, 0)
                /\ t_k > arr.t[n] => frames[k].drivers[c] = Snapshot(arr, n - 1)

\* C11's case: a frame at a step before one driver's first sample and after
\* another driver's last sample, both drivers having several samples.
C11_Witness ==
    /\ LoadSucceeded
    /\ \E k \in 1..Len(frames) : \E c, e \in DOMAIN AllData(session.data) :
        LET t_k == Min(SampleTimes(session.data)) + (k - 1) * DT
            early == AllData(session.data)[c].t
            late == AllData(session.data)[e].t
        IN  /\ Len(early) >= 2 /\ Len(late) >= 2
            /\ t_k < early[1]
            /\ t_k > late[Len(late)]

====
